---- MODULE Spec2Model ----
(***************************************************************************)
(* A model of ledger.py, the script that reconciles fund valuation records *)
(* with a product catalog: parse_mixed_date, the left merge, the           *)
(* annualized return, assign_nav_disclosure_dates, the column-level run of *)
(* the script and the per-year output.                                     *)
(*                                                                         *)
(* Encoding.  A date is its day serial (days since 1899-12-30, the origin  *)
(* of line 24); pd.NaT is the sentinel NaT.  A unit value is an integer of *)
(* hundredths (100 = 1.00); a missing cell is NaN and Python's None is     *)
(* PyNone.  Each part of the script has a specification of its own over    *)
(* the variables it uses; the other variables stay at their idle values.   *)
(***************************************************************************)
EXTENDS Integers, Sequences, FiniteSets, TLC

VARIABLES
    \* parse_mixed_date (lines 6-33)
    series,       \* the cells of the input column handed to convert so far
    converted,    \* series.apply(convert): one result per cell
    text,         \* convert's local: str(value).strip() of the current cell
    cpc,          \* where parse_mixed_date is
    parsed,       \* the value parse_mixed_date returns
    \* the merge (lines 63-93)
    nv_dfs, df_nv_all, df_product, df_merged, mpc,
    \* calc_annualized_return (lines 103-112)
    row, annualized, rpc,
    \* assign_nav_disclosure_dates, one product's walk (lines 126-142)
    walked, last_nav, last_date, dates, wpc,
    \* assign_nav_disclosure_dates on a whole table (lines 116-146)
    df, result, todo, group_sorted, tpc,
    \* the script as a whole, by column presence (lines 36-190)
    files, nv_columns, product_columns, columns, stage,
    \* the output by year (lines 175-190)
    projected, year_groups, sheets, opc

parseVars == <<series, converted, text, cpc, parsed>>
mergeVars == <<nv_dfs, df_nv_all, df_product, df_merged, mpc>>
returnVars == <<row, annualized, rpc>>
walkVars == <<walked, last_nav, last_date, dates, wpc>>
tableVars == <<df, result, todo, group_sorted, tpc>>
runVars == <<files, nv_columns, product_columns, columns, stage>>
outVars == <<projected, year_groups, sheets, opc>>
vars == <<parseVars, mergeVars, returnVars, walkVars, tableVars, runVars, outVars>>

(***************************************************************************)
(* Values shared by the parts.                                             *)
(***************************************************************************)
\* pd.NaT, the unknown date (pandas stores it as the least integer).
NaT == -999999999
\* A missing cell (float nan): pd.isna is true of it and it differs from everything.
NaN == -1
\* Python's None: pd.isna is true of it, and None == None.
PyNone == -2

\* pd.isna(x) for a unit value.
isna(x) == x \in {NaN, PyNone}

\* Python's x != y on unit values: nan differs from everything, itself included.
PyNe(x, y) == IF x = NaN \/ y = NaN THEN TRUE ELSE x # y

\* Days from 1970-01-01 to the civil date y-m-d (proleptic Gregorian calendar).
DaysFromCivil(y, m, d) ==
    LET yy == IF m <= 2 THEN y - 1 ELSE y
        era == yy \div 400
        yoe == yy - era * 400
        mp == IF m > 2 THEN m - 3 ELSE m + 9
        doy == (153 * mp + 2) \div 5 + d - 1
        doe == yoe * 365 + yoe \div 4 - yoe \div 100 + doy
    IN  era * 146097 + doe - 719468

\* The year of the date `days` days after 1970-01-01.
CivilYear(days) ==
    LET z == days + 719468
        era == z \div 146097
        doe == z - era * 146097
        yoe == (doe - doe \div 1460 + doe \div 36524 - doe \div 146096) \div 365
        doy == doe - (365 * yoe + yoe \div 4 - yoe \div 100)
        mp == (5 * doy + 2) \div 153
        m == IF mp < 10 THEN mp + 3 ELSE mp - 9
    IN  yoe + era * 400 + (IF m <= 2 THEN 1 ELSE 0)

\* origin="1899-12-30": the day the serials count from.
origin == DaysFromCivil(1899, 12, 30)

\* The day serial of the civil date y-m-d.
Serial(y, m, d) == DaysFromCivil(y, m, d) - origin

\* Series.dt.year of a date; nan (here NaN) for NaT.
YearOf(date) == IF date = NaT THEN NaN ELSE CivilYear(date + origin)

\* The days a nanosecond Timestamp can hold: 1677-09-22 .. 2262-04-11.
InBounds(day) == Serial(1677, 9, 22) <= day /\ day <= Serial(2262, 4, 11)

IsLeap(y) == (y % 4 = 0 /\ y % 100 # 0) \/ y % 400 = 0

DaysInMonth(y, m) ==
    IF m = 2 THEN (IF IsLeap(y) THEN 29 ELSE 28)
    ELSE IF m \in {4, 6, 9, 11} THEN 30 ELSE 31

\* Whether the digits yyyymmdd name a day of the calendar.
ValidYmd(num) ==
    LET y == num \div 10000
        m == (num \div 100) % 100
        d == num % 100
    IN  /\ y >= 1
        /\ m \in 1..12
        /\ d \in 1..DaysInMonth(y, m)

YmdSerial(num) == Serial(num \div 10000, (num \div 100) % 100, num % 100)

(***************************************************************************)
(* parse_mixed_date (lines 6-33).                                          *)
(*                                                                         *)
(* A cell is described by what convert can tell of it: kind "null" is a    *)
(* missing cell, "empty" the empty string, "digits" a text that is `len`   *)
(* decimal digits of value `num`, "iso" a text "YYYY-MM-DD[ hh:mm][+hh:mm]"*)
(* (num = yyyymmdd, tod = 1 when a time of day follows, tz = "aware" when  *)
(* an offset follows), "junk" any other text.  pad says that blanks        *)
(* surround the text.                                                      *)
(***************************************************************************)
\* The longest column parse_mixed_date is given.
MaxSeries == 2

Cell(kind, len, num, tod, tz, pad) ==
    [kind |-> kind, len |-> len, num |-> num, tod |-> tod, tz |-> tz, pad |-> pad]

RawValues ==
    {Cell("null", 0, 0, 0, "naive", FALSE), Cell("empty", 0, 0, 0, "naive", FALSE),
     Cell("junk", 5, 0, 0, "naive", FALSE)}
    \cup {Cell("digits", 8, n, 0, "naive", p) :
            n \in {20240101, 20230229, 20241301, 99991231}, p \in BOOLEAN}
    \cup {Cell("digits", 5, 45292, 0, "naive", FALSE),
          Cell("digits", 6, 999999, 0, "naive", FALSE),
          Cell("digits", 4, 2024, 0, "naive", FALSE),
          Cell("digits", 3, 123, 0, "naive", FALSE)}
    \cup {Cell("iso", 10, n, t, z, FALSE) :
            n \in {20240101, 20230229}, t \in {0, 1}, z \in {"naive", "aware"}}

NoText == Cell("none", 0, 0, 0, "naive", FALSE)

\* A Timestamp: its day, whether it carries a time of day, and its time zone.
Timestamp(day, tod, tz) == [day |-> day, tod |-> tod, tz |-> tz]
NaTStamp == Timestamp(NaT, 0, "naive")

\* pd.isna(value) or value == ""  (line 11)
IsBlank(value) == value.kind \in {"null", "empty"}

\* str(value).strip()  (line 14)
Strip(value) == [value EXCEPT !.pad = FALSE]

\* re.fullmatch(r"\d{8}", text)  (line 16)
Match8(t) == t.kind = "digits" /\ t.len = 8 /\ ~t.pad

\* re.fullmatch(r"\d{4,6}", text)  (line 22)
Match4to6(t) == t.kind = "digits" /\ t.len \in 4..6 /\ ~t.pad

\* pd.to_datetime(text, format="%Y%m%d") raises unless the digits name a day a
\* Timestamp can hold.  (line 18)
YmdRaises(t) == ~ValidYmd(t.num) \/ ~InBounds(YmdSerial(t.num))

\* pd.to_datetime(float(text), unit="D", origin="1899-12-30") raises when the
\* day is out of a Timestamp's bounds.  (line 24)
SerialRaises(t) == ~InBounds(t.num)

\* What convert may return from its last attempt (lines 28-31): the Timestamp
\* pd.to_datetime(text) returns, or NaT when it raises.  The generic parser's
\* reading of a bare digit string is the library's business: either outcome
\* is allowed for one.
GenericOutcomes(t) ==
    CASE t.kind = "iso" ->
            IF ValidYmd(t.num) /\ InBounds(YmdSerial(t.num))
            THEN {Timestamp(YmdSerial(t.num), t.tod, t.tz)}
            ELSE {NaTStamp}
      [] t.kind = "digits" -> {NaTStamp, Timestamp(Serial(2024, 1, 1), 0, "naive")}
      [] OTHER -> {NaTStamp}

\* Whether the accessor .dt exists on a Series of these results: pandas holds
\* them as datetimes only if the time zones of those that are not NaT agree;
\* otherwise the Series is of dtype object and .dt raises AttributeError.
Datetimelike(s) ==
    \A i, j \in 1..Len(s) : (s[i].day # NaT /\ s[j].day # NaT) => s[i].tz = s[j].tz

\* .dt.floor("D") of one element  (line 33)
FloorD(ts) == IF ts.day = NaT THEN ts ELSE [ts EXCEPT !.tod = 0]

\* The other parts stay idle.
ParseFrame == UNCHANGED <<mergeVars, returnVars, walkVars, tableVars, runVars, outVars>>

ParseIdle ==
    /\ series = <<>> /\ converted = <<>> /\ text = NoText
    /\ cpc = "off" /\ parsed = <<>>

ParseInit ==
    /\ series = <<>> /\ converted = <<>> /\ text = NoText
    /\ cpc = "apply" /\ parsed = <<>>

\* series.apply hands the next cell to convert.
Apply(value) ==
    /\ cpc = "apply"
    /\ Len(series) < MaxSeries
    /\ series' = Append(series, value)
    /\ cpc' = "isna"
    /\ UNCHANGED <<converted, text, parsed>>
    /\ ParseFrame

\* Lines 11-14.
ConvertBlank ==
    /\ cpc = "isna"
    /\ LET value == series[Len(series)] IN
         IF IsBlank(value)
         THEN /\ converted' = Append(converted, NaTStamp)
              /\ cpc' = "apply"
              /\ text' = NoText
         ELSE /\ text' = Strip(value)
              /\ cpc' = "ymd"
              /\ UNCHANGED converted
    /\ UNCHANGED <<series, parsed>>
    /\ ParseFrame

\* Lines 16-20.
ConvertYmd ==
    /\ cpc = "ymd"
    /\ IF Match8(text) /\ ~YmdRaises(text)
       THEN /\ converted' = Append(converted, Timestamp(YmdSerial(text.num), 0, "naive"))
            /\ cpc' = "apply"
            /\ text' = NoText
       ELSE /\ cpc' = "serial"
            /\ UNCHANGED <<converted, text>>
    /\ UNCHANGED <<series, parsed>>
    /\ ParseFrame

\* Lines 22-26.
ConvertSerial ==
    /\ cpc = "serial"
    /\ IF Match4to6(text) /\ ~SerialRaises(text)
       THEN /\ converted' = Append(converted, Timestamp(text.num, 0, "naive"))
            /\ cpc' = "apply"
            /\ text' = NoText
       ELSE /\ cpc' = "generic"
            /\ UNCHANGED <<converted, text>>
    /\ UNCHANGED <<series, parsed>>
    /\ ParseFrame

\* Lines 28-31: the generic parse, NaT when it raises.
ConvertGeneric ==
    /\ cpc = "generic"
    /\ \E ts \in GenericOutcomes(text) :
          converted' = Append(converted, ts)
    /\ cpc' = "apply"
    /\ text' = NoText
    /\ UNCHANGED <<series, parsed>>
    /\ ParseFrame

\* Line 33: .dt.floor("D") on the converted column, once every cell is done.
Floor ==
    /\ cpc = "apply"
    /\ Len(series) >= 1
    /\ IF Datetimelike(converted)
       THEN /\ parsed' = [i \in 1..Len(converted) |-> FloorD(converted[i])]
            /\ cpc' = "returned"
       ELSE /\ cpc' = "raised"
            /\ UNCHANGED parsed
    /\ UNCHANGED <<series, converted, text>>
    /\ ParseFrame

ParseNext ==
    \/ \E value \in RawValues : Apply(value)
    \/ ConvertBlank
    \/ ConvertYmd
    \/ ConvertSerial
    \/ ConvertGeneric
    \/ Floor

(***************************************************************************)
(* The merge (lines 63-93).  A valuation row is its product code and src,  *)
(* the place (sheet, row) it was read from, which stands for the rest of   *)
(* its cells; a catalog row is its product code and its operating mode.    *)
(***************************************************************************)
\* The most rows a valuation sheet holds, and the most rows of the catalog.
MaxSheetRows == 2
MaxCatalog == 2

\* Product codes as read from the files: two codes and the empty cell.
Codes == {1, 2}
CodeCells == Codes \cup {NaN}

\* The text of the catalog's operating mode: with the marker, without it.
Modes == {"open", "event"}

\* The cell pandas leaves where there is no value (text columns).
NoValue == "nan"

SeqsUpTo(S, n) == UNION {[1..k -> S] : k \in 0..n}

\* The sheets read_excel can return for one file position `f`.
Sheets(f) ==
    {[i \in 1..Len(cs) |-> [code |-> cs[i], src |-> <<f, i>>]] :
        cs \in SeqsUpTo(CodeCells, MaxSheetRows)}

Catalogs == SeqsUpTo([code : CodeCells, mode : Modes], MaxCatalog)

RECURSIVE Concat(_)
\* pd.concat(nv_dfs, ignore_index=True)  (line 81)
Concat(dfs) == IF dfs = <<>> THEN <<>> ELSE Head(dfs) \o Concat(Tail(dfs))

\* The catalog rows whose key equals `code` (an empty cell matches an empty cell).
Matches(code, right) == SelectSeq(right, LAMBDA r : r.code = code)

\* The rows one left row gives in a left join.
JoinRow(l, right) ==
    LET m == Matches(l.code, right)
    IN  IF m = <<>>
        THEN <<[code |-> l.code, src |-> l.src, mode |-> NoValue]>>
        ELSE [k \in 1..Len(m) |-> [code |-> l.code, src |-> l.src, mode |-> m[k].mode]]

\* The rows one left row gives in an inner join.
JoinRowInner(l, right) ==
    LET m == Matches(l.code, right)
    IN  [k \in 1..Len(m) |-> [code |-> l.code, src |-> l.src, mode |-> m[k].mode]]

RECURSIVE InnerJoin(_, _)
InnerJoin(left, right) ==
    IF left = <<>> THEN <<>>
    ELSE JoinRowInner(Head(left), right) \o InnerJoin(Tail(left), right)

RECURSIVE LeftJoin(_, _)
\* pd.merge(left, right, how='left', on='产品代码')  (line 88)
LeftJoin(left, right) ==
    IF left = <<>> THEN <<>>
    ELSE JoinRow(Head(left), right) \o LeftJoin(Tail(left), right)

\* The other parts stay idle.
MergeFrame == UNCHANGED <<parseVars, returnVars, walkVars, tableVars, runVars, outVars>>

MergeIdle ==
    /\ nv_dfs = <<>> /\ df_nv_all = <<>> /\ df_product = <<>>
    /\ df_merged = <<>> /\ mpc = "off"

MergeInit ==
    /\ \E s1 \in Sheets(1), s2 \in Sheets(2) : nv_dfs = <<s1, s2>>
    /\ df_product \in Catalogs
    /\ df_nv_all = <<>>
    /\ df_merged = <<>>
    /\ mpc = "read"

\* Line 81.
ConcatSheets ==
    /\ mpc = "read"
    /\ df_nv_all' = Concat(nv_dfs)
    /\ mpc' = "concatenated"
    /\ UNCHANGED <<nv_dfs, df_product, df_merged>>
    /\ MergeFrame

\* Line 88.
Merge ==
    /\ mpc = "concatenated"
    /\ df_merged' = LeftJoin(df_nv_all, df_product)
    /\ mpc' = "merged"
    /\ UNCHANGED <<nv_dfs, df_nv_all, df_product>>
    /\ MergeFrame

MergeNext == ConcatSheets \/ Merge

(***************************************************************************)
(* calc_annualized_return (lines 103-112).  A row is its as-of date        *)
(* (规模计算日期), its inception date (成立日) and its unit value          *)
(* (最新单位净值); complete is FALSE when one of the three columns is not   *)
(* in the table.  A float result is kept as the expression it is: the base *)
(* in hundredths and the days of the exponent 365 / days.                  *)
(***************************************************************************)
\* A cell float() cannot convert (a text that is no number).
NonNumeric == -3

ReturnDates == {NaT, Serial(2023, 1, 1), Serial(2023, 1, 2), Serial(2024, 1, 1)}
ReturnValues == {NaN, NonNumeric, 100, 110}

NoRow == [asOf |-> NaT, inception |-> NaT, nav |-> NaN, complete |-> FALSE]

\* The results: None, float nan, or the float (base/100) ^ (365/days) - 1) * 100.
ReturnNone == [kind |-> "None", base |-> 0, days |-> 0]
ReturnNan == [kind |-> "nan", base |-> 0, days |-> 0]
ReturnFloat(base, days) == [kind |-> "float", base |-> base, days |-> days]

\* (asOf - inception).days: a difference with NaT is NaT, whose days is nan.
DaysBetween(asOf, inception) ==
    IF asOf = NaT \/ inception = NaT
    THEN [nan |-> TRUE, n |-> 0]
    ELSE [nan |-> FALSE, n |-> asOf - inception]

\* (pow(base, 365 / days) - 1) * 100 on Python floats: with a nan exponent
\* pow gives 1.0 for the base 1.0 and nan for every other base.
Annualize(base, days) ==
    IF days.nan
    THEN (IF base = 100 THEN ReturnFloat(100, 0) ELSE ReturnNan)
    ELSE ReturnFloat(base, days.n)

\* Lines 103-110.  A missing column (KeyError) and a text float() rejects
\* (ValueError) are caught by the bare except.
calc_annualized_return(r) ==
    IF ~r.complete THEN ReturnNone
    ELSE LET days == DaysBetween(r.asOf, r.inception)
         IN  IF (~days.nan /\ days.n <= 0) \/ isna(r.nav) THEN ReturnNone
             ELSE IF r.nav = NonNumeric THEN ReturnNone
             ELSE Annualize(r.nav, days)

\* The other parts stay idle.
ReturnFrame == UNCHANGED <<parseVars, mergeVars, walkVars, tableVars, runVars, outVars>>

ReturnIdle == row = NoRow /\ annualized = ReturnNone /\ rpc = "off"

ReturnInit ==
    /\ row \in [asOf : ReturnDates, inception : ReturnDates,
                nav : ReturnValues, complete : BOOLEAN]
    /\ annualized = ReturnNone
    /\ rpc = "row"

\* Line 112, for one row.
CalcAnnualizedReturn ==
    /\ rpc = "row"
    /\ annualized' = calc_annualized_return(row)
    /\ rpc' = "done"
    /\ UNCHANGED row
    /\ ReturnFrame

ReturnNext == CalcAnnualizedReturn

(***************************************************************************)
(* assign_nav_disclosure_dates, the walk of one product (lines 126-142).   *)
(* The rows of group_sorted arrive one at a time, in ascending order of    *)
(* reporting date with NaT last, as sort_values leaves them.  A row is its *)
(* is_open flag (运作模式 contains 开放式), its reporting date and its unit  *)
(* value.                                                                  *)
(***************************************************************************)
\* The most rows of one product, and the latest reporting day.
MaxWalk == 4
MaxDate == 4

WalkDates == (1..MaxDate) \cup {NaT}
UnitValues == {NaN, 100, 105}
WalkRows == [is_open : BOOLEAN, date : WalkDates, nav : UnitValues]

\* The order of sort_values('规模计算日期'): ascending, NaT last.
DateLe(a, b) == b = NaT \/ (a # NaT /\ a <= b)

\* Line 139 with "is not" for "!=": two floats are never the same object, so
\* the event branch updates at every row.
TrackRowIdentityTest(nav0, date0, r) ==
    IF r.is_open
    THEN [nav |-> r.nav, date |-> r.date]
    ELSE LET current_nav == IF isna(r.nav) THEN nav0 ELSE r.nav
         IN  [nav |-> current_nav, date |-> r.date]

\* The open branch run through the event branch's change test.
TrackRowOpenAsEvent(nav0, date0, r) ==
    LET current_nav == IF isna(r.nav) THEN nav0 ELSE r.nav
    IN  IF nav0 = PyNone \/ PyNe(current_nav, nav0)
        THEN [nav |-> current_nav, date |-> r.date]
        ELSE [nav |-> nav0, date |-> date0]

\* Lines 132-141: last_nav and last_date after one row, from their values
\* nav0 and date0 before it.
TrackRow(nav0, date0, r) ==
    IF r.is_open
    THEN [nav |-> r.nav, date |-> r.date]
    ELSE LET current_nav == IF isna(r.nav) THEN nav0 ELSE r.nav
         IN  IF nav0 = PyNone \/ PyNe(current_nav, nav0)
             THEN [nav |-> current_nav, date |-> r.date]
             ELSE [nav |-> nav0, date |-> date0]

\* The other parts stay idle.
WalkFrame == UNCHANGED <<parseVars, mergeVars, returnVars, tableVars, runVars, outVars>>

WalkIdle ==
    /\ walked = <<>> /\ last_nav = PyNone /\ last_date = PyNone
    /\ dates = <<>> /\ wpc = "off"

\* Lines 128-130.
WalkInit ==
    /\ walked = <<>> /\ last_nav = PyNone /\ last_date = PyNone
    /\ dates = <<>> /\ wpc = "walk"

\* One turn of the loop of line 131, lines 132-142.
WalkRow(r) ==
    /\ wpc = "walk"
    /\ Len(walked) < MaxWalk
    /\ walked # <<>> => DateLe(walked[Len(walked)].date, r.date)
    /\ LET t == TrackRow(last_nav, last_date, r) IN
         /\ last_nav' = t.nav
         /\ last_date' = t.date
         /\ dates' = Append(dates, t.date)
    /\ walked' = Append(walked, r)
    /\ UNCHANGED wpc
    /\ WalkFrame

WalkNext == \E r \in WalkRows : WalkRow(r)

(***************************************************************************)
(* assign_nav_disclosure_dates on a whole table (lines 116-146).  df is    *)
(* the merged table; its index is 1..Len(df), the fresh index pd.merge     *)
(* gives.  A row is its product code (NaN for an empty cell), is_open, its *)
(* reporting date and its unit value.                                      *)
(***************************************************************************)
\* The most rows of the table, and its latest reporting day.
TableRows == 2
TableDays == 2

TableDates == (1..TableDays) \cup {NaT}
TableRowSet == [code : CodeCells, is_open : BOOLEAN, date : TableDates, nav : UnitValues]

\* groupby('产品代码'): the keys, empty cells dropped  (line 125)
GroupKeys(d) == {d[i].code : i \in 1..Len(d)} \ {NaN}

GroupIndex(d, code) == {i \in 1..Len(d) : d[i].code = code}

\* The orders sort_values('规模计算日期') may give the rows `idx` of d:
\* ascending by date, NaT last, rows of equal date in either order.  (line 126)
SortedOrders(d, idx) ==
    {o \in [1..Cardinality(idx) -> idx] :
        /\ \A a, b \in 1..Cardinality(idx) : a # b => o[a] # o[b]
        /\ \A a \in 1..(Cardinality(idx) - 1) : DateLe(d[o[a]].date, d[o[a + 1]].date)}

\* The state a walk starts from, without the reset of lines 128-129.
ResetStateKept(prev) == prev

\* Lines 128-129: last_nav = None, last_date = None.
ResetState(prev) == [nav |-> PyNone, date |-> PyNone]

RECURSIVE WalkFrom(_, _, _)
\* Lines 131-142: the dates emitted for `rows`, walked from (nav0, date0).
WalkFrom(nav0, date0, rows) ==
    IF rows = <<>> THEN <<>>
    ELSE LET t == TrackRow(nav0, date0, Head(rows))
         IN  <<t>> \o WalkFrom(t.nav, t.date, Tail(rows))

\* The k-th smallest element of a set of row positions.
RECURSIVE Ascending(_)
Ascending(idx) ==
    IF idx = {} THEN <<>>
    ELSE LET m == CHOOSE x \in idx : \A y \in idx : x <= y
         IN  <<m>> \o Ascending(idx \ {m})

\* result.loc[group.index] = dates: the dates stored in the group's own row
\* order instead of the sorted one.
StoreDatesUnsorted(res, order, ds) ==
    LET asc == Ascending({order[k] : k \in 1..Len(order)})
    IN  [i \in 1..Len(res) |->
            IF \E k \in 1..Len(asc) : asc[k] = i
            THEN ds[CHOOSE k \in 1..Len(asc) : asc[k] = i]
            ELSE res[i]]

\* result.loc[group_sorted.index] = dates  (line 143)
StoreDates(res, order, ds) ==
    [i \in 1..Len(res) |->
        IF \E k \in 1..Len(order) : order[k] = i
        THEN ds[CHOOSE k \in 1..Len(order) : order[k] = i]
        ELSE res[i]]

\* The other parts stay idle.
TableFrame == UNCHANGED <<parseVars, mergeVars, returnVars, runVars, outVars>>

TableIdle ==
    /\ df = <<>> /\ result = <<>> /\ todo = {} /\ group_sorted = <<>>
    /\ tpc = "off"

\* Lines 124-125: result is all NaT and the groups are formed.
TableInit ==
    /\ df \in SeqsUpTo(TableRowSet, TableRows)
    /\ result = [i \in 1..Len(df) |-> NaT]
    /\ todo = GroupKeys(df)
    /\ group_sorted = <<>>
    /\ tpc = "groups"
    /\ walked = <<>> /\ last_nav = PyNone /\ last_date = PyNone
    /\ dates = <<>> /\ wpc = "off"

\* One turn of the loop of line 125, lines 126-143, for the next key.
ProcessGroup ==
    /\ tpc = "groups"
    /\ todo # {}
    /\ LET code == CHOOSE c \in todo : \A c2 \in todo : c <= c2 IN
         /\ todo' = todo \ {code}
         /\ \E order \in SortedOrders(df, GroupIndex(df, code)) :
              LET rows == [k \in 1..Len(order) |->
                              [is_open |-> df[order[k]].is_open,
                               date |-> df[order[k]].date,
                               nav |-> df[order[k]].nav]]
                  start == ResetState([nav |-> last_nav, date |-> last_date])
                  steps == WalkFrom(start.nav, start.date, rows)
                  ds == [k \in 1..Len(steps) |-> steps[k].date]
              IN  /\ group_sorted' = order
                  /\ walked' = rows
                  /\ dates' = ds
                  /\ last_nav' = steps[Len(steps)].nav
                  /\ last_date' = steps[Len(steps)].date
                  /\ result' = StoreDates(result, order, ds)
    /\ UNCHANGED <<df, tpc, wpc>>
    /\ TableFrame

\* Line 144.
ReturnResult ==
    /\ tpc = "groups"
    /\ todo = {}
    /\ tpc' = "returned"
    /\ UNCHANGED <<df, result, todo, group_sorted, walkVars>>
    /\ TableFrame

TableNext == ProcessGroup \/ ReturnResult

(***************************************************************************)
(* The script as a whole, by the columns its tables hold (lines 36-190).   *)
(* Columns: "code" 产品代码, "date" 规模计算日期, "nav" 最新单位净值,        *)
(* "mode" 运作模式, "inception" 成立日, "scale" 实际募集总规模, "name"      *)
(* 产品名称 (which stands for the other columns of the catalog that        *)
(* final_columns lists), "backup" 备用单位净值, "annualized"                *)
(* 成立以来年化收益率（%）, "cumulative" 最新累计净值, "disclosure"          *)
(* 最新净值日期, "year" 年份.  The tables are taken to hold a row of a      *)
(* product, so that every loop body runs.                                  *)
(***************************************************************************)
\* The headers a valuation sheet may have, after lines 68-78: the first
\* column is the code when none is named 产品代码; a column whose name holds
\* 单位净值 is the unit value; 汇总日期 is the reporting date.
NvHeaders == {{"code"} \cup h : h \in SUBSET {"date", "nav", "name"}}

\* The headers the catalog may have, after the renaming of lines 49-55.
ProductHeaders == SUBSET {"code", "mode", "inception", "name", "scale", "nav"}

\* The columns of final_columns  (lines 149-157)
final_columns ==
    {"date", "code", "name", "mode", "inception", "scale",
     "annualized", "nav", "cumulative", "disclosure"}

\* The columns of pd.merge(left, right, how='left', on='产品代码') after the
\* renaming of lines 90-93: a column of both tables other than the key is
\* suffixed _x and _y, and only 最新单位净值 is named back.
MergedColumns(left, right) ==
    LET both == (left \cap right) \ {"code"}
    IN  ((left \cup right) \ both)
        \cup (IF "nav" \in both THEN {"nav", "backup"} ELSE {})
        \cup {c \in {"name_x", "name_y"} : "name" \in both}

\* The other parts stay idle.
RunFrame == UNCHANGED <<parseVars, mergeVars, returnVars, walkVars, tableVars, outVars>>

RunIdle ==
    /\ files = [catalog |-> FALSE, nv |-> FALSE]
    /\ nv_columns = {} /\ product_columns = {} /\ columns = {}
    /\ stage = "off"

RunInit ==
    /\ files \in [catalog : BOOLEAN, nv : BOOLEAN]
    /\ nv_columns \in NvHeaders
    /\ product_columns \in ProductHeaders
    /\ columns = {}
    /\ stage = "start"

\* Lines 37-43: the two assertions.
Discover ==
    /\ stage = "start"
    /\ stage' = IF files.catalog /\ files.nv THEN "found" ELSE "aborted"
    /\ UNCHANGED <<files, nv_columns, product_columns, columns>>
    /\ RunFrame

\* Lines 46-85: the tables are read; parse_mixed_date runs on the date
\* columns that are there.
ReadTables ==
    /\ stage = "found"
    /\ stage' = "read"
    /\ UNCHANGED <<files, nv_columns, product_columns, columns>>
    /\ RunFrame

\* Lines 88-93: the merge needs the key in both tables.
MergeTables ==
    /\ stage = "read"
    /\ IF "code" \in product_columns
       THEN /\ columns' = MergedColumns(nv_columns, product_columns)
            /\ stage' = "merged"
       ELSE /\ stage' = "crashed"
            /\ UNCHANGED columns
    /\ UNCHANGED <<files, nv_columns, product_columns>>
    /\ RunFrame

\* Lines 98-100: each date column is normalized if it is there.
NormalizeDates ==
    /\ stage = "merged"
    /\ stage' = "normalized"
    /\ UNCHANGED <<files, nv_columns, product_columns, columns>>
    /\ RunFrame

\* Lines 112-113: calc_annualized_return catches a missing column; line 113
\* reads 最新单位净值 without a check.
AddReturns ==
    /\ stage = "normalized"
    /\ IF "nav" \in columns
       THEN /\ columns' = columns \cup {"annualized", "cumulative"}
            /\ stage' = "returns"
       ELSE /\ stage' = "crashed"
            /\ UNCHANGED columns
    /\ UNCHANGED <<files, nv_columns, product_columns>>
    /\ RunFrame

\* Line 146: assign_nav_disclosure_dates reads the four columns of its
\* docstring without a check.
AddDisclosureDates ==
    /\ stage = "returns"
    /\ IF {"code", "date", "mode", "nav"} \subseteq columns
       THEN /\ columns' = columns \cup {"disclosure"}
            /\ stage' = "dated"
       ELSE /\ stage' = "crashed"
            /\ UNCHANGED columns
    /\ UNCHANGED <<files, nv_columns, product_columns>>
    /\ RunFrame

\* Lines 158-168: df_merged[final_columns] needs every listed column.
Project ==
    /\ stage = "dated"
    /\ IF final_columns \subseteq columns
       THEN /\ columns' = final_columns
            /\ stage' = "projected"
       ELSE /\ stage' = "crashed"
            /\ UNCHANGED columns
    /\ UNCHANGED <<files, nv_columns, product_columns>>
    /\ RunFrame

\* Lines 171-190: scaling and date formatting check for their columns; the
\* year is read from 规模计算日期, which the projection has kept; the sheets
\* are written.
ScaleFormatWrite ==
    /\ stage = "projected"
    /\ stage' = "written"
    /\ UNCHANGED <<files, nv_columns, product_columns, columns>>
    /\ RunFrame

RunNext ==
    \/ Discover
    \/ ReadTables
    \/ MergeTables
    \/ NormalizeDates
    \/ AddReturns
    \/ AddDisclosureDates
    \/ Project
    \/ ScaleFormatWrite

(***************************************************************************)
(* The output by year (lines 175-190).  A row of the projected table is    *)
(* its reporting date; a sheet is its name (the year, or SingleSheet for   *)
(* 产品达标分析结果) and the positions of the rows written to it.           *)
(***************************************************************************)
\* The most rows of the projected table.
MaxOutRows == 3

OutDates == {NaT, Serial(2023, 12, 31), Serial(2024, 1, 1), Serial(2024, 1, 2)}

\* The name of the only sheet when the data covers one year  (line 187)
SingleSheet == 0

\* groupby('年份'): the years, rows without one dropped  (lines 176-177)
YearGroups(t) ==
    {[name |-> y, rows |-> {i \in 1..Len(t) : YearOf(t[i]) = y}] :
        y \in {YearOf(t[i]) : i \in 1..Len(t)} \ {NaN}}

\* Lines 186-190: the sheets written.
WriteSheets(t, groups) ==
    IF Cardinality(groups) = 1
    THEN {[name |-> SingleSheet, rows |-> 1..Len(t)]}
    ELSE groups

\* The other parts stay idle.
OutFrame == UNCHANGED <<parseVars, mergeVars, returnVars, walkVars, tableVars, runVars>>

OutIdle == projected = <<>> /\ year_groups = {} /\ sheets = {} /\ opc = "off"

OutInit ==
    /\ projected \in SeqsUpTo(OutDates, MaxOutRows)
    /\ year_groups = {}
    /\ sheets = {}
    /\ opc = "projected"

\* Lines 176-177.
GroupByYear ==
    /\ opc = "projected"
    /\ year_groups' = YearGroups(projected)
    /\ opc' = "grouped"
    /\ UNCHANGED <<projected, sheets>>
    /\ OutFrame

\* Lines 185-190.  A workbook without a sheet cannot be saved: the writer
\* raises when the block is left.
WriteOutput ==
    /\ opc = "grouped"
    /\ sheets' = WriteSheets(projected, year_groups)
    /\ opc' = IF WriteSheets(projected, year_groups) = {} THEN "raised" ELSE "written"
    /\ UNCHANGED <<projected, year_groups>>
    /\ OutFrame

OutNext == GroupByYear \/ WriteOutput

(***************************************************************************)
(* The specifications: one per part, the other parts idle.                 *)
(***************************************************************************)
ParseSpecInit ==
    /\ ParseInit
    /\ MergeIdle
    /\ ReturnIdle
    /\ WalkIdle
    /\ TableIdle
    /\ RunIdle
    /\ OutIdle

SpecParse == ParseSpecInit /\ [][ParseNext]_vars

MergeSpecInit ==
    /\ MergeInit
    /\ ParseIdle
    /\ ReturnIdle
    /\ WalkIdle
    /\ TableIdle
    /\ RunIdle
    /\ OutIdle

SpecMerge == MergeSpecInit /\ [][MergeNext]_vars

ReturnSpecInit ==
    /\ ReturnInit
    /\ ParseIdle
    /\ MergeIdle
    /\ WalkIdle
    /\ TableIdle
    /\ RunIdle
    /\ OutIdle

SpecReturn == ReturnSpecInit /\ [][ReturnNext]_vars

WalkSpecInit ==
    /\ WalkInit
    /\ ParseIdle
    /\ MergeIdle
    /\ ReturnIdle
    /\ TableIdle
    /\ RunIdle
    /\ OutIdle

SpecWalk == WalkSpecInit /\ [][WalkNext]_vars

TableSpecInit ==
    /\ TableInit
    /\ ParseIdle
    /\ MergeIdle
    /\ ReturnIdle
    /\ RunIdle
    /\ OutIdle

SpecTable == TableSpecInit /\ [][TableNext]_vars

RunSpecInit ==
    /\ RunInit
    /\ ParseIdle
    /\ MergeIdle
    /\ ReturnIdle
    /\ WalkIdle
    /\ TableIdle
    /\ OutIdle

SpecRun == RunSpecInit /\ [][RunNext]_vars

OutSpecInit ==
    /\ OutInit
    /\ ParseIdle
    /\ MergeIdle
    /\ ReturnIdle
    /\ WalkIdle
    /\ TableIdle
    /\ RunIdle

SpecOut == OutSpecInit /\ [][OutNext]_vars

\* The whole model: the script is in one of its parts.
Init ==
    \/ ParseSpecInit \/ MergeSpecInit \/ ReturnSpecInit \/ WalkSpecInit
    \/ TableSpecInit \/ RunSpecInit \/ OutSpecInit

Next ==
    \/ ParseNext \/ MergeNext \/ ReturnNext \/ WalkNext
    \/ TableNext \/ RunNext \/ OutNext

Spec == Init /\ [][Next]_vars

(***************************************************************************)
(* The claims.                                                             *)
(***************************************************************************)
\* The rows walked so far are all of the event regime.
AllEvent(k) == \A j \in 1..k : ~walked[j].is_open

\* C1: in the walk of an event product, every observation after the first
\* whose unit value is missing (and whose reporting date is known) emits the
\* date emitted for the observation before it, whatever the earlier values
\* were (all missing included).
C1_NullRepeatsPrevious ==
    wpc = "walk" =>
        \A k \in 2..Len(walked) :
            (AllEvent(k) /\ walked[k].nav = NaN /\ walked[k].date # NaT)
                => dates[k] = dates[k - 1]

\* One row is walked: the first row emits its own date; a later event row
\* with a value emits its own date if the value differs from the tracked one
\* and the date emitted before it otherwise.
C2_Step ==
    (wpc = "walk" /\ Len(walked') = Len(walked) + 1) =>
        LET k == Len(walked)
            r == walked'[k + 1]
        IN  /\ k = 0 => dates'[1] = r.date
            /\ (k > 0 /\ ~r.is_open /\ r.nav # NaN) =>
                  dates'[k + 1] = (IF r.nav # last_nav THEN r.date ELSE dates[k])

\* The values 1.00, 1.00, 1.05, 1.05 of an event product on four days.
C2_ExampleWalked ==
    /\ wpc = "walk"
    /\ Len(walked) = 4
    /\ AllEvent(4)
    /\ \A k \in 1..4 : walked[k].date = k
    /\ walked[1].nav = 100 /\ walked[2].nav = 100
    /\ walked[3].nav = 105 /\ walked[4].nav = 105

\* C2: the change rule of the event regime: the first observation emits its
\* own date, a later one with a value emits its own date exactly when the
\* value differs from the tracked value, else the date emitted before it; the
\* values 1.00, 1.00, 1.05, 1.05 on D1..D4 emit D1, D1, D3, D3.
C2_ChangeRule ==
    /\ [][C2_Step]_vars
    /\ [](C2_ExampleWalked => dates = <<1, 1, 3, 3>>)

\* C2's case: the example has been walked, with a date kept and a date advanced.
C2_Witness == C2_ExampleWalked /\ dates[2] = 1 /\ dates[3] = 3

\* C3: an observation of the open regime emits its own reporting date,
\* whatever the unit values, and the tracked value and date are overwritten
\* with it.
C3_OpenEmitsOwnDate ==
    wpc = "walk" =>
        /\ \A k \in 1..Len(walked) : walked[k].is_open => dates[k] = walked[k].date
        /\ (walked # <<>> /\ walked[Len(walked)].is_open) =>
              /\ last_nav = walked[Len(walked)].nav
              /\ last_date = walked[Len(walked)].date

\* C3's case: three open observations on D1 < D2 < D3 whose value repeats and
\* is then missing, each with its own date.
C3_Witness ==
    /\ wpc = "walk"
    /\ Len(walked) = 3
    /\ \A k \in 1..3 : walked[k].is_open /\ walked[k].date = k
    /\ walked[1].nav = 100 /\ walked[2].nav = 100 /\ walked[3].nav = NaN
    /\ dates = <<1, 2, 3>>
    /\ last_nav = NaN

\* After a group is stored, the date at each of its rows' positions is the one
\* its walk emitted for that row, and the group is the rows of one code.
AlignedStore ==
    (tpc # "off" /\ group_sorted # <<>>) =>
        /\ \A k \in 1..Len(group_sorted) : result[group_sorted[k]] = dates[k]
        /\ \A k \in 1..Len(group_sorted) :
              /\ walked[k].date = df[group_sorted[k]].date
              /\ walked[k].nav = df[group_sorted[k]].nav
        /\ {group_sorted[k] : k \in 1..Len(group_sorted)} =
              GroupIndex(df, df[group_sorted[1]].code)

\* Row i has been given a date: a row with a known reporting date has a known
\* disclosure date, and an open row has its own date.
RowDated(i) ==
    /\ df[i].date # NaT => result[i] # NaT
    /\ df[i].is_open => result[i] = df[i].date

SameProduct(i) == {j \in 1..Len(df) : df[j].code = df[i].code}

\* C9: for a product whose reporting dates are all known, the date emitted
\* for an observation is a reporting date of that product, is not later than
\* the observation's own date and does not decrease with the reporting date;
\* each product's walk starts from the reset state, its first row emitting
\* its own date.
C9_EmittedDateOfProduct ==
    /\ (tpc # "off" /\ group_sorted # <<>>) => dates[1] = walked[1].date
    /\ tpc = "returned" =>
          \A i \in 1..Len(df) :
              (df[i].code # NaN /\ \A j \in SameProduct(i) : df[j].date # NaT) =>
                  /\ result[i] \in {df[j].date : j \in SameProduct(i)}
                  /\ result[i] <= df[i].date
                  /\ \A j \in SameProduct(i) :
                        df[i].date < df[j].date => result[i] <= result[j]

\* C9's case: two products; the second one's only observation has no value
\* and still emits its own date, earlier than the first product's.
C9_Witness ==
    /\ tpc = "returned"
    /\ Len(df) = 2
    /\ df[1].code = 1 /\ df[2].code = 2
    /\ ~df[1].is_open /\ ~df[2].is_open
    /\ df[1].date = 2 /\ df[1].nav = 100
    /\ df[2].date = 1 /\ df[2].nav = NaN
    /\ result = <<2, 1>>

\* No two catalog rows have the same product code.
CatalogUnique ==
    \A a, b \in 1..Len(df_product) : df_product[a].code = df_product[b].code => a = b

\* The merged table is the valuation table: as many rows, each valuation row
\* once, with the catalog's fields empty where no catalog row has its code.
ValuationShaped ==
    /\ Len(df_merged) = Len(df_nv_all)
    /\ \A i \in 1..Len(df_nv_all) :
          /\ Cardinality({j \in 1..Len(df_merged) : df_merged[j].src = df_nv_all[i].src}) = 1
          /\ \A j \in 1..Len(df_merged) :
                df_merged[j].src = df_nv_all[i].src =>
                    /\ df_merged[j].code = df_nv_all[i].code
                    /\ (\A c \in 1..Len(df_product) : df_product[c].code # df_nv_all[i].code)
                          => df_merged[j].mode = NoValue
    /\ \A j \in 1..Len(df_merged) :
          \E i \in 1..Len(df_nv_all) : df_merged[j].src = df_nv_all[i].src

\* C5 as stated: every valuation row appears exactly once in the merged
\* table, rows without a catalog match kept with empty catalog fields, and
\* the merged table has as many rows as the concatenated valuation table.
C5_EveryValuationRowOnce == mpc = "merged" => ValuationShaped

\* C5, amended: the same, when no two catalog rows have the same product code.
C5_UniqueCatalogLeftJoin == (mpc = "merged" /\ CatalogUnique) => ValuationShaped

\* C5's case: a valuation row with a catalog match, one without, and a catalog
\* row no valuation row matches.
C5_Witness ==
    /\ mpc = "merged"
    /\ CatalogUnique
    /\ \E i, j \in 1..Len(df_merged) :
          df_merged[i].mode = NoValue /\ df_merged[j].mode # NoValue
    /\ \E c \in 1..Len(df_product) :
          \A i \in 1..Len(df_nv_all) : df_nv_all[i].code # df_product[c].code

\* C6: calc_annualized_return gives a null (None, or the nan a column holds
\* for it) when the elapsed days are not positive, when the unit value is
\* missing and when either date is NaT.
C6_NullWhenUndefined ==
    (/\ rpc = "done"
     /\ \/ row.asOf = NaT
        \/ row.inception = NaT
        \/ row.asOf - row.inception <= 0
        \/ row.nav = NaN)
    => annualized.kind \in {"None", "nan"}

\* C7: the run ends before the output is written only when the catalog file
\* or the valuation files are not found.
C7_OnlyTwoFatal ==
    stage \in {"aborted", "crashed"} => (~files.catalog \/ ~files.nv)

\* C8: parse_mixed_date never raises; a missing or empty cell gives NaT; every
\* result is NaT or a date without a time of day.
C8_NeverRaises ==
    /\ cpc # "raised"
    /\ \A i \in 1..Len(converted) : IsBlank(series[i]) => converted[i] = NaTStamp
    /\ cpc = "returned" =>
          \A i \in 1..Len(parsed) : parsed[i].day = NaT \/ parsed[i].tod = 0

\* C10: every row of the projected table is written to exactly one sheet.
C10_EveryRowWritten ==
    opc = "written" =>
        \A i \in 1..Len(projected) :
            Cardinality({sh \in sheets : i \in sh.rows}) = 1

====
